---- MODULE Spec2Model ----
(***************************************************************************)
(* boost.fiber unbuffered_channel<T> over the intrusive context_slist.     *)
(*                                                                         *)
(* Every fiber (context) runs on its own thread, so the steps of different *)
(* fibers interleave at every access to shared memory.  A section that     *)
(* runs under detail::spinlock_lock lk{ splk_ } is one atomic action: the  *)
(* spinlock excludes every other section, a section never blocks, and      *)
(* context::suspend( lk) releases the lock as it suspends.                 *)
(*                                                                         *)
(* A pointer is the number of the context it points to or into; 0 is       *)
(* nullptr.  slot_ = p means that slot_ holds the address of the slot      *)
(* object in the frame of p's push call.                                   *)
(***************************************************************************)
EXTENDS Integers, FiniteSets, Sequences, TLC

\* number of fibers
NCtx == 3
\* calls the fibers may start in all, per specification
MaxCalls == 4
MaxCallsUntimed == 8
\* calls around the destructor, the destructor included
MaxCallsDestroy == 7
\* calls on the condition variable
MaxCallsCv == 7
\* calls on the broadcast, and slots that may be connected
MaxCallsBc == 4
\* calls on the context_slist on its own
MaxCallsSlist == 7
MaxSlots == 2

\* consumers blocked in pop in the FIFO scenario
FifoK == 3

Ctx == 1..NCtx
\* the fibers of the FIFO scenario: FifoK consumers and one producer
FifoConsumers == 1..FifoK
FifoProducer == FifoK + 1
\* every context there is
AllCtx == Ctx \cup FifoConsumers \cup {FifoProducer}
\* what a read of a dead slot object may yield besides the bytes left there
Garbage == 0
Val == 1..(MaxCalls + MaxCallsUntimed + MaxCallsDestroy)

PushOps == {"push", "push_wait_until"}
TimedOps == {"push_wait_until", "pop_wait_until"}

VARIABLES
    slot_,               \* std::atomic< slot * > slot_
    closed_,             \* std::atomic_bool closed_
    waiting_producers_,  \* context_slist: [head, tail]
    waiting_consumers_,  \* context_slist: [head, tail]
    next,                \* Context::next of every context
    wake,                \* scheduler: why a context is in the ready queue
    pc,                  \* where each fiber stands in its call
    op,                  \* the call each fiber is in (or was last in)
    slotval,             \* slot::value in each fiber's frame
    sptr,                \* pop's local s
    pctx,                \* pop's local producer_ctx
    out,                 \* pop's destination value
    ret,                 \* status each fiber's last call returned
    late,                \* the call was started after close() had returned
    budget,              \* calls that may still be started
    nvals,               \* values handed to push so far
    pub,                 \* history: the value published in slot_
    claimed,             \* history: values whose publication a pop has claimed
    succ,                \* history: values whose push returned success
    tmo,                 \* history: values whose push returned timeout
    delivered,           \* history: how often each value was moved out by a pop
    aborted,             \* the process has aborted (assertion, null dereference)
    arrivals,            \* history: the contexts in the order they joined a wait-queue
    past,                \* the deadline of the timed call was in the past when it was made
    destroyed,           \* history: ~unbuffered_channel() has run
    orphan,              \* history: the producer suspended on its published slot at destruction
    marks,               \* history: set_ready calls of the destructor on that producer
    wait_queue_,         \* condition_variable_any: context_slist wait_queue_
    nctx,                \* notify_one's local ctx
    nk,                  \* history: contexts waiting and calls left when the notify_one popped
    fifo,                \* history: the contexts waiting on the condition variable, longest first
    woken,               \* history: the contexts the last notify_all marked ready, in order
    mutex_s,             \* broadcast: static std::mutex mutex_s; the thread holding it, or 0
    signal_s,            \* broadcast: static signal signal_s; the number of connected slots
    inv,                 \* the signal invocation each thread is in
    blog,                \* history: the notify call behind each slot invocation, in order
    sl,                  \* a context_slist of its own: [head, tail]
    ref,                 \* history: the contexts pushed on sl and not taken off, oldest first
    lastpop,             \* what the last sl.pop() returned
    sl2,                 \* a second context_slist: [head, tail]
    ref2                 \* history: the contexts pushed on sl2 and not taken off, oldest first

vars == <<slot_, closed_, waiting_producers_, waiting_consumers_, next, wake,
          pc, op, slotval, sptr, pctx, out, ret, late, budget, nvals, pub,
          claimed, succ, tmo, delivered, aborted, arrivals,
          past,
          destroyed,
          orphan,
          marks,
          wait_queue_,
          nctx,
          nk,
          fifo,
          woken,
          mutex_s,
          signal_s,
          inv,
          blog,
          sl,
          ref,
          lastpop,
          sl2,
          ref2>>

chan == <<slot_, closed_, waiting_producers_, waiting_consumers_, next>>
hist == <<pub, claimed, succ, tmo, delivered>>
\* what the channel's member functions leave alone
\* the condition variable
cv == <<wait_queue_, nctx, nk, fifo, woken>>
\* the broadcast
bc == <<mutex_s, signal_s, inv, blog>>
\* the context_slist on its own
slt2 == <<sl2, ref2>>
slt == <<sl, ref, lastpop, slt2>>
ext == <<arrivals, past, destroyed, orphan, marks, cv, bc, slt>>

-----------------------------------------------------------------------------
(* context_slist *)

\* Context * head_{ nullptr }; Context ** tail_{ & head_ }
\* tail = 0 stands for & head_, tail = c for & c->next
slist_init == [head |-> 0, tail |-> 0]

\* * tail_
slist_deref_tail(q, nxt) == IF q.tail = 0 THEN q.head ELSE nxt[q.tail]

slist_empty(q) == q.head = 0

\* push( c): the queue and the next pointers afterwards
\* a push that links c in front of head_
slist_push_front(q, nxt, c) ==
    [q |-> [q EXCEPT !.head = c], next |-> [nxt EXCEPT ![c] = q.head]]

slist_push(q, nxt, c) ==
    LET last == slist_deref_tail(q, nxt) IN
    IF last = 0
    THEN IF q.tail = 0
         THEN [q |-> [q EXCEPT !.head = c], next |-> nxt]
         ELSE [q |-> q, next |-> [nxt EXCEPT ![q.tail] = c]]
    ELSE [q |-> [q EXCEPT !.tail = last], next |-> [nxt EXCEPT ![last] = c]]

\* pop(): the context returned and the queue afterwards
slist_pop(q, nxt) ==
    IF q.head # 0
    THEN [ctx |-> q.head, q |-> [q EXCEPT !.head = nxt[q.head]]]
    ELSE [ctx |-> 0, q |-> q]

\* the contexts pop() would return, in order, with those in `seen` left out
RECURSIVE slist_walk(_, _, _)
slist_walk(c, nxt, seen) ==
    IF c = 0 \/ c \in seen THEN << >>
    ELSE <<c>> \o slist_walk(nxt[c], nxt, seen \cup {c})

slist_seq(q, nxt) == slist_walk(q.head, nxt, {})
slist_members(q, nxt) == {slist_seq(q, nxt)[i] : i \in 1..Len(slist_seq(q, nxt))}

\* the chain from head_ runs into itself: pop() never returns nullptr
slist_cyclic(q, nxt) ==
    LET s == slist_seq(q, nxt) IN
    /\ Len(s) > 0
    /\ nxt[s[Len(s)]] # 0

\* unlink( c) for a c reachable from head_
slist_unlink(q, nxt, c) ==
    LET s == slist_seq(q, nxt)
        i == CHOOSE j \in 1..Len(s) : s[j] = c
        nq == IF i = 1 THEN [q EXCEPT !.head = nxt[c]] ELSE q
        n1 == IF i = 1 THEN nxt ELSE [nxt EXCEPT ![s[i - 1]] = nxt[c]]
    IN [q |-> nq, next |-> [n1 EXCEPT ![c] = 0]]

-----------------------------------------------------------------------------
(* scheduler and context *)

\* context::set_ready( ctx): ctx enters the ready queue unless it is there
set_ready(w, c) == IF w[c] = "none" THEN [w EXCEPT ![c] = "notified"] ELSE w

RECURSIVE set_ready_all(_, _)
set_ready_all(w, s) ==
    IF s = << >> THEN w ELSE set_ready_all(set_ready(w, Head(s)), Tail(s))

-----------------------------------------------------------------------------
\* the channel after construction, no fiber in a call, b calls to come
init(b) ==
    /\ slot_ = 0
    /\ closed_ = FALSE
    /\ waiting_producers_ = slist_init
    /\ waiting_consumers_ = slist_init
    /\ next = [c \in AllCtx |-> 0]
    /\ wake = [c \in AllCtx |-> "none"]
    /\ pc = [c \in AllCtx |-> "idle"]
    /\ op = [c \in AllCtx |-> "none"]
    /\ slotval = [c \in AllCtx |-> Garbage]
    /\ sptr = [c \in AllCtx |-> 0]
    /\ pctx = [c \in AllCtx |-> 0]
    /\ out = [c \in AllCtx |-> Garbage]
    /\ ret = [c \in AllCtx |-> "none"]
    /\ late = [c \in AllCtx |-> FALSE]
    /\ budget = b
    /\ nvals = 0
    /\ pub = 0
    /\ claimed = {}
    /\ succ = {}
    /\ tmo = {}
    /\ delivered = [v \in {Garbage} \cup Val |-> 0]
    /\ aborted = FALSE
    /\ arrivals = << >>
    /\ past = [c \in AllCtx |-> FALSE]
    /\ destroyed = FALSE
    /\ orphan = 0
    /\ marks = 0
    /\ wait_queue_ = slist_init
    /\ nctx = [c \in AllCtx |-> 0]
    /\ nk = [c \in AllCtx |-> [k |-> 0, b |-> 0]]
    /\ fifo = << >>
    /\ woken = << >>
    /\ mutex_s = 0
    /\ signal_s = 0
    /\ inv = [c \in AllCtx |-> [n |-> 0, i |-> 0, busy |-> FALSE, id |-> 0]]
    /\ blog = << >>
    /\ sl = slist_init
    /\ ref = << >>
    /\ lastpop = 0
    /\ sl2 = slist_init
    /\ ref2 = << >>

Init == init(MaxCalls)

InitUntimed == init(MaxCallsUntimed)

-----------------------------------------------------------------------------
(* unbuffered_channel: private helpers *)

is_empty_ == slot_ = 0

is_closed == closed_

\* try_push_( own_slot): the CAS nullptr -> own_slot, retried while it loses
\* against a slot_ that is nullptr again
try_push_(s, own_slot) ==
    IF s = 0 THEN [ok |-> TRUE, slot |-> own_slot] ELSE [ok |-> FALSE, slot |-> s]

\* try_pop_(): the CAS s -> nullptr of a non-null s
try_pop_(s) == [s |-> s, slot |-> 0]

\* slot * nil_slot = nullptr, * own_slot = & s;
\* slot_.compare_exchange_strong( own_slot, nil_slot)
clear_slot(s, own_slot) == IF s = own_slot THEN 0 ELSE s

\* s->value as a pop reads it: the slot object of a producer that has left
\* its call is dead, and the read yields what the frame holds now or anything
slot_read(p) ==
    IF pc[p] # "idle" /\ op[p] \in PushOps THEN {slotval[p]}
    ELSE {slotval[p], Garbage}

-----------------------------------------------------------------------------
(* the calls *)

CanStart(c) == ~aborted /\ pc[c] = "idle" /\ budget > 0

Running(c, l) == ~aborted /\ pc[c] = l

start_push(c, o) ==
    /\ CanStart(c)
    /\ budget' = budget - 1
    /\ nvals' = nvals + 1
    /\ op' = [op EXCEPT ![c] = o]
    /\ late' = [late EXCEPT ![c] = closed_]
    /\ slotval' = [slotval EXCEPT ![c] = nvals + 1]
    /\ pc' = [pc EXCEPT ![c] = "p_closed"]
    /\ UNCHANGED <<chan, wake, sptr, pctx, out, ret, hist, aborted>>

start_pop(c, o) ==
    /\ CanStart(c)
    /\ budget' = budget - 1
    /\ op' = [op EXCEPT ![c] = o]
    /\ late' = [late EXCEPT ![c] = closed_]
    /\ sptr' = [sptr EXCEPT ![c] = 0]
    /\ pc' = [pc EXCEPT ![c] = "c_try"]
    /\ UNCHANGED <<chan, wake, slotval, pctx, out, ret, nvals, hist, aborted>>

\* channel_op_status push( value_type const& value): slot s{ value, active_ctx }
StartPush(c) == start_push(c, "push") /\ UNCHANGED ext

\* push_wait_until( value, timeout_time_)
StartPushWaitUntil(c) == start_push(c, "push_wait_until") /\ UNCHANGED ext

\* channel_op_status pop( value_type & value)
StartPop(c) == start_pop(c, "pop") /\ UNCHANGED ext

\* value_type value_pop()
StartValuePop(c) == start_pop(c, "value_pop") /\ UNCHANGED ext

\* pop_wait_until( value, timeout_time_)
StartPopWaitUntil(c) == start_pop(c, "pop_wait_until") /\ UNCHANGED ext

\* a push call returns st
push_return(c, st) ==
    /\ pc' = [pc EXCEPT ![c] = "idle"]
    /\ ret' = [ret EXCEPT ![c] = st]
    /\ succ' = IF st = "success" THEN succ \cup {slotval[c]} ELSE succ
    /\ tmo' = IF st = "timeout" THEN tmo \cup {slotval[c]} ELSE tmo

\* a pop call returns st
pop_return(c, st) ==
    /\ pc' = [pc EXCEPT ![c] = "idle"]
    /\ ret' = [ret EXCEPT ![c] = st]

\* push without the test of closed_ at the head of its loop
PushIsClosed_unchecked(c) ==
    /\ Running(c, "p_closed")
    /\ pc' = [pc EXCEPT ![c] = "p_try"]
    /\ UNCHANGED <<chan, wake, op, slotval, sptr, pctx, out, ret, late, budget,
                   nvals, hist, aborted>>
    /\ UNCHANGED ext

\* push: if ( is_closed() ) return channel_op_status::closed;
PushIsClosed(c) ==
    /\ Running(c, "p_closed")
    /\ IF is_closed
       THEN push_return(c, "closed")
       ELSE /\ pc' = [pc EXCEPT ![c] = "p_try"]
            /\ UNCHANGED <<ret, succ, tmo>>
    /\ UNCHANGED <<chan, wake, op, slotval, sptr, pctx, out, late, budget,
                   nvals, pub, claimed, delivered, aborted>>
    /\ UNCHANGED ext

\* push: if ( try_push_( & s) )
PushTry(c) ==
    /\ Running(c, "p_try")
    /\ LET r == try_push_(slot_, c) IN
       /\ slot_' = r.slot
       /\ pub' = IF r.ok THEN slotval[c] ELSE pub
       /\ pc' = [pc EXCEPT ![c] = IF r.ok THEN "p_pub" ELSE "p_full"]
    /\ UNCHANGED <<closed_, waiting_producers_, waiting_consumers_, next, wake,
                   op, slotval, sptr, pctx, out, ret, late, budget, nvals,
                   claimed, succ, tmo, delivered, aborted>>
    /\ UNCHANGED ext

\* push, slot published: under splk_ pop one waiting consumer and mark it
\* ready, then suspend( lk) or wait_until( timeout_time, lk)
PushPublished(c) ==
    /\ Running(c, "p_pub")
    /\ LET r == slist_pop(waiting_consumers_, next) IN
       /\ waiting_consumers_' = r.q
       /\ wake' = IF r.ctx # 0 THEN set_ready(wake, r.ctx) ELSE wake
    /\ pc' = [pc EXCEPT ![c] = "p_waitpub"]
    /\ UNCHANGED <<slot_, closed_, waiting_producers_, next, op, slotval, sptr,
                   pctx, out, ret, late, budget, nvals, hist, aborted>>
    /\ UNCHANGED ext

\* push, slot published: resumed.  suspend() returned, or wait_until()
\* returned true: success.  wait_until() returned false: clear the slot,
\* ignore whether the CAS took it, return timeout
PushConsumed(c) ==
    /\ Running(c, "p_waitpub")
    /\ wake[c] # "none"
    /\ wake' = [wake EXCEPT ![c] = "none"]
    /\ IF wake[c] = "timeout"
       THEN /\ slot_' = clear_slot(slot_, c)
            /\ pub' = IF slot_ = c THEN 0 ELSE pub
            /\ push_return(c, "timeout")
       ELSE /\ UNCHANGED <<slot_, pub>>
            /\ push_return(c, "success")
    /\ UNCHANGED <<closed_, waiting_producers_, waiting_consumers_, next, op,
                   slotval, sptr, pctx, out, late, budget, nvals, claimed,
                   delivered, aborted>>
    /\ UNCHANGED ext

\* push, slot occupied: under splk_ re-check closed_ and slot_, then join
\* waiting_producers_ and suspend
PushFull(c) ==
    /\ Running(c, "p_full")
    /\ IF is_closed
       THEN /\ push_return(c, "closed")
            /\ UNCHANGED <<waiting_producers_, next>>
       ELSE IF is_empty_
       THEN /\ pc' = [pc EXCEPT ![c] = "p_closed"]
            /\ UNCHANGED <<waiting_producers_, next, ret, succ, tmo>>
       ELSE LET r == slist_push(waiting_producers_, next, c) IN
            /\ waiting_producers_' = r.q
            /\ next' = r.next
            /\ pc' = [pc EXCEPT ![c] = "p_waitq"]
            /\ UNCHANGED <<ret, succ, tmo>>
    /\ UNCHANGED <<slot_, closed_, waiting_consumers_, wake, op, slotval, sptr,
                   pctx, out, late, budget, nvals, pub, claimed, delivered,
                   aborted>>
    /\ UNCHANGED ext

\* push, in waiting_producers_: resumed; retry, or on a timeout go on to
\* lk.lock() and unlink
PushRetry(c) ==
    /\ Running(c, "p_waitq")
    /\ wake[c] # "none"
    /\ wake' = [wake EXCEPT ![c] = "none"]
    /\ pc' = [pc EXCEPT ![c] = IF wake[c] = "timeout" THEN "p_relock" ELSE "p_closed"]
    /\ UNCHANGED <<chan, op, slotval, sptr, pctx, out, ret, late, budget, nvals,
                   hist, aborted>>
    /\ UNCHANGED ext

\* push_wait_until: lk.lock(); waiting_producers_.unlink( active_ctx);
\* return timeout.  unlink of a context that is not reachable from head_
\* fails its assertion or runs off the list
PushUnlink(c) ==
    /\ Running(c, "p_relock")
    /\ IF c \in slist_members(waiting_producers_, next)
       THEN LET r == slist_unlink(waiting_producers_, next, c) IN
            /\ waiting_producers_' = r.q
            /\ next' = r.next
            /\ push_return(c, "timeout")
            /\ UNCHANGED aborted
       ELSE /\ aborted' = TRUE
            /\ UNCHANGED <<waiting_producers_, next, pc, ret, succ, tmo>>
    /\ UNCHANGED <<slot_, closed_, waiting_consumers_, wake, op, slotval, sptr,
                   pctx, out, late, budget, nvals, pub, claimed, delivered>>
    /\ UNCHANGED ext

\* pop: if ( nullptr != ( s = try_pop_() ) )
PopTry(c) ==
    /\ Running(c, "c_try")
    /\ IF slot_ # 0
       THEN LET r == try_pop_(slot_) IN
            /\ sptr' = [sptr EXCEPT ![c] = r.s]
            /\ slot_' = r.slot
            /\ claimed' = claimed \cup {pub}
            /\ pub' = 0
            /\ pc' = [pc EXCEPT ![c] = "c_notify"]
       ELSE /\ pc' = [pc EXCEPT ![c] = "c_empty"]
            /\ UNCHANGED <<sptr, slot_, claimed, pub>>
    /\ UNCHANGED <<closed_, waiting_producers_, waiting_consumers_, next, wake,
                   op, slotval, pctx, out, ret, late, budget, nvals, succ, tmo,
                   delivered, aborted>>
    /\ UNCHANGED ext

\* pop, slot claimed: under splk_ producer_ctx = waiting_producers_.pop()
PopNotify(c) ==
    /\ Running(c, "c_notify")
    /\ LET r == slist_pop(waiting_producers_, next) IN
       /\ waiting_producers_' = r.q
       /\ pctx' = [pctx EXCEPT ![c] = r.ctx]
       /\ pc' = [pc EXCEPT ![c] = IF r.ctx # 0 THEN "c_ready" ELSE "c_move"]
    /\ UNCHANGED <<slot_, closed_, waiting_consumers_, next, wake, op, slotval,
                   sptr, out, ret, late, budget, nvals, hist, aborted>>
    /\ UNCHANGED ext

\* pop: lk.unlock(); active_ctx->set_ready( producer_ctx)
PopReady(c) ==
    /\ Running(c, "c_ready")
    /\ wake' = set_ready(wake, pctx[c])
    /\ pctx' = [pctx EXCEPT ![c] = 0]
    /\ pc' = [pc EXCEPT ![c] = "c_move"]
    /\ UNCHANGED <<chan, op, slotval, sptr, out, ret, late, budget, nvals, hist,
                   aborted>>
    /\ UNCHANGED ext

\* pop: value = std::move( s->value)
PopMove(c) ==
    /\ Running(c, "c_move")
    /\ \E v \in slot_read(sptr[c]) :
          /\ out' = [out EXCEPT ![c] = v]
          /\ delivered' = [delivered EXCEPT ![v] = @ + 1]
    /\ pc' = [pc EXCEPT ![c] = "c_done"]
    /\ UNCHANGED <<chan, wake, op, slotval, sptr, pctx, ret, late, budget,
                   nvals, pub, claimed, succ, tmo, aborted>>
    /\ UNCHANGED ext

\* pop: active_ctx->set_ready( s->ctx); return channel_op_status::success
PopDone(c) ==
    /\ Running(c, "c_done")
    /\ wake' = set_ready(wake, sptr[c])
    /\ sptr' = [sptr EXCEPT ![c] = 0]
    /\ pop_return(c, "success")
    /\ UNCHANGED <<chan, op, slotval, pctx, out, late, budget, nvals, hist,
                   aborted>>
    /\ UNCHANGED ext

\* pop, slot empty: under splk_ re-check closed_ and slot_, then join
\* waiting_consumers_ and suspend.  value_pop throws fiber_error when closed
pop_empty(c) ==
    /\ Running(c, "c_empty")
    /\ IF is_closed
       THEN /\ pop_return(c, IF op[c] = "value_pop" THEN "fiber_error" ELSE "closed")
            /\ UNCHANGED <<waiting_consumers_, next>>
       ELSE IF ~is_empty_
       THEN /\ pc' = [pc EXCEPT ![c] = "c_try"]
            /\ UNCHANGED <<waiting_consumers_, next, ret>>
       ELSE LET r == slist_push(waiting_consumers_, next, c) IN
            /\ waiting_consumers_' = r.q
            /\ next' = r.next
            /\ pc' = [pc EXCEPT ![c] = "c_waitq"]
            /\ UNCHANGED ret
    /\ UNCHANGED <<slot_, closed_, waiting_producers_, wake, op, slotval, sptr,
                   pctx, out, late, budget, nvals, hist, aborted>>

PopEmpty(c) == pop_empty(c) /\ UNCHANGED ext

\* pop, in waiting_consumers_: resumed; retry, or on a timeout go on to
\* lk.lock() and unlink
PopRetry(c) ==
    /\ Running(c, "c_waitq")
    /\ wake[c] # "none"
    /\ wake' = [wake EXCEPT ![c] = "none"]
    /\ pc' = [pc EXCEPT ![c] = IF wake[c] = "timeout" THEN "c_relock" ELSE "c_try"]
    /\ UNCHANGED <<chan, op, slotval, sptr, pctx, out, ret, late, budget, nvals,
                   hist, aborted>>
    /\ UNCHANGED ext

\* pop_wait_until: lk.lock(); waiting_consumers_.unlink( active_ctx);
\* return timeout
PopUnlink(c) ==
    /\ Running(c, "c_relock")
    /\ IF c \in slist_members(waiting_consumers_, next)
       THEN LET r == slist_unlink(waiting_consumers_, next, c) IN
            /\ waiting_consumers_' = r.q
            /\ next' = r.next
            /\ pop_return(c, "timeout")
            /\ UNCHANGED aborted
       ELSE /\ aborted' = TRUE
            /\ UNCHANGED <<waiting_consumers_, next, pc, ret>>
    /\ UNCHANGED <<slot_, closed_, waiting_producers_, wake, op, slotval, sptr,
                   pctx, out, late, budget, nvals, hist>>
    /\ UNCHANGED ext

\* the scheduler moves a sleeper whose deadline has passed to the ready
\* queue; its wait_until() will return false
Timeout(c) ==
    /\ ~aborted
    /\ pc[c] \in {"p_waitpub", "p_waitq", "c_waitq"}
    /\ op[c] \in TimedOps
    /\ wake[c] = "none"
    /\ wake' = [wake EXCEPT ![c] = "timeout"]
    /\ UNCHANGED <<chan, pc, op, slotval, sptr, pctx, out, ret, late, budget,
                   nvals, hist, aborted>>
    /\ UNCHANGED ext

\* a close() that pops one context off each queue: if in place of while
Close_pop_one(c) ==
    /\ CanStart(c)
    /\ budget' = budget - 1
    /\ op' = [op EXCEPT ![c] = "close"]
    /\ late' = [late EXCEPT ![c] = closed_]
    /\ closed_' = TRUE
    /\ LET p == slist_pop(waiting_producers_, next)
           q == slist_pop(waiting_consumers_, next)
           w == IF p.ctx # 0 THEN set_ready(wake, p.ctx) ELSE wake
       IN /\ waiting_producers_' = p.q
          /\ waiting_consumers_' = q.q
          /\ wake' = IF q.ctx # 0 THEN set_ready(w, q.ctx) ELSE w
    /\ ret' = [ret EXCEPT ![c] = "void"]
    /\ UNCHANGED <<slot_, next, pc, slotval, sptr, pctx, out, nvals, hist, aborted>>
    /\ UNCHANGED ext

\* close(): under splk_ set closed_, pop every context off both queues and
\* mark it ready.  On a chain that runs into itself pop() never returns
\* nullptr and close() spins with the lock held
Close(c) ==
    /\ CanStart(c)
    /\ budget' = budget - 1
    /\ op' = [op EXCEPT ![c] = "close"]
    /\ late' = [late EXCEPT ![c] = closed_]
    /\ closed_' = TRUE
    /\ IF slist_cyclic(waiting_producers_, next) \/ slist_cyclic(waiting_consumers_, next)
       THEN /\ aborted' = TRUE
            /\ UNCHANGED <<waiting_producers_, waiting_consumers_, wake, ret>>
       ELSE /\ wake' = set_ready_all(set_ready_all(wake,
                           slist_seq(waiting_producers_, next)),
                           slist_seq(waiting_consumers_, next))
            /\ waiting_producers_' = [waiting_producers_ EXCEPT !.head = 0]
            /\ waiting_consumers_' = [waiting_consumers_ EXCEPT !.head = 0]
            /\ ret' = [ret EXCEPT ![c] = "void"]
            /\ UNCHANGED aborted
    /\ UNCHANGED <<slot_, next, pc, slotval, sptr, pctx, out, nvals, hist>>
    /\ UNCHANGED ext

-----------------------------------------------------------------------------
Next ==
    \E c \in Ctx :
        \/ StartPush(c)
        \/ StartPushWaitUntil(c)
        \/ StartPop(c)
        \/ StartValuePop(c)
        \/ StartPopWaitUntil(c)
        \/ Close(c)
        \/ PushIsClosed(c)
        \/ PushTry(c)
        \/ PushPublished(c)
        \/ PushConsumed(c)
        \/ PushFull(c)
        \/ PushRetry(c)
        \/ PushUnlink(c)
        \/ PopTry(c)
        \/ PopNotify(c)
        \/ PopReady(c)
        \/ PopMove(c)
        \/ PopDone(c)
        \/ PopEmpty(c)
        \/ PopRetry(c)
        \/ PopUnlink(c)
        \/ Timeout(c)

Spec == Init /\ [][Next]_vars

\* push and pop alone: no close, no timed call
NextUntimed ==
    \E c \in Ctx :
        \/ StartPush(c)
        \/ StartPop(c)
        \/ PushIsClosed(c)
        \/ PushTry(c)
        \/ PushPublished(c)
        \/ PushConsumed(c)
        \/ PushFull(c)
        \/ PushRetry(c)
        \/ PopTry(c)
        \/ PopNotify(c)
        \/ PopReady(c)
        \/ PopMove(c)
        \/ PopDone(c)
        \/ PopEmpty(c)
        \/ PopRetry(c)

SpecUntimed == InitUntimed /\ [][NextUntimed]_vars

-----------------------------------------------------------------------------
(* properties *)

AllReturned == \A c \in Ctx : pc[c] = "idle"

RECURSIVE sum_delivered(_)
sum_delivered(S) ==
    IF S = {} THEN 0
    ELSE LET v == CHOOSE x \in S : TRUE IN delivered[v] + sum_delivered(S \ {v})

\* C1: with push and pop only, once N pushes and N pops have all returned,
\* every pushed value has been moved out by exactly one pop and nothing else
\* has been moved out
C1_DeliveredEqualsPushed ==
    (AllReturned /\ ~aborted /\ sum_delivered({Garbage} \cup Val) = nvals)
        => /\ delivered[Garbage] = 0
           /\ \A v \in Val : delivered[v] = IF v <= nvals THEN 1 ELSE 0

\* C2: a push returns success only after a pop has claimed that very
\* publication, so the values whose push returned success are among the
\* claimed ones (and the successes never outnumber the claims)
C2_SuccessOnlyAfterClaim == succ \subseteq claimed

\* C3: a push_wait_until returns timeout only if its own CAS took the slot
\* back, so no pop has claimed the value of a push that returned timeout
C3_TimeoutNeverClaimed == tmo \cap claimed = {}

\* C4: while slot_ is not nullptr the producer owning the slot is still in
\* its call, about to suspend or suspended awaiting consumption
C4_SlotOwnerInCall ==
    slot_ # 0 => /\ pc[slot_] \in {"p_pub", "p_waitpub"}
                 /\ op[slot_] \in PushOps

\* no fiber is running or ready: every fiber is outside a call or suspended
\* with no wakeup pending and no deadline set
Quiescent ==
    \A c \in Ctx :
        \/ pc[c] = "idle"
        \/ /\ pc[c] \in {"p_waitpub", "p_waitq", "c_waitq"}
           /\ wake[c] = "none"
           /\ op[c] \notin TimedOps

\* C5: the channel never rests with slot_ nullptr, a producer suspended in
\* waiting_producers_, a consumer suspended in waiting_consumers_ and no
\* fiber left to wake either of them
C5_NoHoarding ==
    ~ /\ slot_ = 0
      /\ Quiescent
      /\ \E p \in slist_members(waiting_producers_, next) : pc[p] = "p_waitq"
      /\ \E c \in slist_members(waiting_consumers_, next) : pc[c] = "c_waitq"

\* C6: after close() a producer suspended in push with its slot published is
\* not left suspended: the channel never rests closed with such a producer
\* and no fiber left to wake it
C6_CloseReleasesProducer ==
    ~ /\ closed_
      /\ Quiescent
      /\ \E p \in Ctx : pc[p] = "p_waitpub" /\ op[p] = "push"

LatePush(c) == late[c] /\ op[c] \in PushOps
LatePop(c) == late[c] /\ op[c] \in {"pop", "pop_wait_until"}

\* C7: a push started after close() has returned neither publishes a slot nor
\* suspends and returns closed; a pop started after close() has returned
\* never suspends, returns success when it finds a slot published and closed
\* when it finds slot_ nullptr
C7_AfterClose ==
    /\ [](\A c \in Ctx :
            /\ LatePush(c) => /\ pc[c] \in {"p_closed", "idle"}
                              /\ pc[c] = "idle" => ret[c] = "closed"
            /\ LatePop(c) => /\ pc[c] \in {"c_try", "c_empty", "c_notify", "c_ready",
                                           "c_move", "c_done", "idle"}
                             /\ pc[c] = "idle" => ret[c] \in {"success", "closed"})
    /\ [][\A c \in Ctx :
            /\ (LatePop(c) /\ pc[c] = "c_try" /\ pc'[c] # "c_try")
                  => pc'[c] = IF slot_ # 0 THEN "c_notify" ELSE "c_empty"
            /\ (LatePop(c) /\ pc[c] = "c_empty" /\ pc'[c] # "c_empty")
                  => pc'[c] = "idle" /\ ret'[c] = "closed"
            /\ (LatePop(c) /\ pc[c] = "c_done" /\ pc'[c] # "c_done")
                  => pc'[c] = "idle" /\ ret'[c] = "success"]_vars

W_C7_AfterClose ==
    /\ \E c \in Ctx : LatePush(c) /\ pc[c] = "idle" /\ ret[c] = "closed"
    /\ \E c \in Ctx : LatePop(c) /\ pc[c] = "idle" /\ ret[c] = "success"

\* C8: once closed_ is set both queues are empty and stay empty, and every
\* context that was suspended in a queue has been marked ready
C8_CloseWakesAll ==
    closed_ => /\ slist_empty(waiting_producers_)
               /\ slist_empty(waiting_consumers_)
               /\ \A c \in Ctx : pc[c] \in {"p_waitq", "c_waitq"} => wake[c] # "none"

\* C9: a context whose push_wait_until or pop_wait_until has returned timeout
\* is in neither wait-queue
C9_TimedOutNotQueued ==
    \A c \in Ctx :
        (pc[c] = "idle" /\ ret[c] = "timeout")
            => /\ c \notin slist_members(waiting_producers_, next)
               /\ c \notin slist_members(waiting_consumers_, next)

\* C10: value_pop raises fiber_error only in a state where the channel is
\* closed and slot_ is nullptr
C10_ErrorOnlyClosedAndEmpty ==
    [][\A c \in Ctx :
          (pc[c] # "idle" /\ pc'[c] = "idle" /\ ret'[c] = "fiber_error")
              => closed_ /\ slot_ = 0]_vars

-----------------------------------------------------------------------------
(* FIFO service of waiting consumers: FifoK consumers block in pop on the
   empty channel, then one producer pushes FifoK values one after another *)

FifoStartPop(c) ==
    /\ c \in FifoConsumers
    /\ op[c] = "none"
    /\ StartPop(c)

\* pop, slot empty; the history records the order of the pushes on
\* waiting_consumers_
FifoPopEmpty(c) ==
    /\ pop_empty(c)
    /\ arrivals' = IF pc'[c] = "c_waitq" THEN Append(arrivals, c) ELSE arrivals
    /\ UNCHANGED <<past, destroyed, orphan, marks, cv, bc, slt>>

\* the producer starts once all consumers are suspended, and pushes again
\* when its push has returned
FifoStartPush(c) ==
    /\ c = FifoProducer
    /\ Len(arrivals) = FifoK
    /\ nvals < FifoK
    /\ StartPush(c)

InitFifo == init(2 * FifoK)

NextFifo ==
    \E c \in FifoConsumers \cup {FifoProducer} :
        \/ FifoStartPop(c)
        \/ FifoStartPush(c)
        \/ PushIsClosed(c)
        \/ PushTry(c)
        \/ PushPublished(c)
        \/ PushConsumed(c)
        \/ PopTry(c)
        \/ PopNotify(c)
        \/ PopMove(c)
        \/ PopDone(c)
        \/ FifoPopEmpty(c)
        \/ PopRetry(c)

SpecFifo == InitFifo /\ [][NextFifo]_vars

-----------------------------------------------------------------------------
(* push_wait_until with a deadline that has already passed *)

\* push_wait_until( value, timeout_time_) with timeout_time_ < clock::now()
StartPushPast(c) ==
    /\ start_push(c, "push_wait_until")
    /\ past' = [past EXCEPT ![c] = TRUE]
    /\ UNCHANGED <<arrivals, destroyed, orphan, marks, cv, bc, slt>>

InitDeadline == init(MaxCalls)

NextDeadline ==
    \E c \in Ctx :
        \/ StartPushPast(c)
        \/ StartPop(c)
        \/ PushIsClosed(c)
        \/ PushTry(c)
        \/ PushPublished(c)
        \/ PushConsumed(c)
        \/ PushFull(c)
        \/ PushRetry(c)
        \/ PushUnlink(c)
        \/ PopTry(c)
        \/ PopNotify(c)
        \/ PopReady(c)
        \/ PopMove(c)
        \/ PopDone(c)
        \/ PopEmpty(c)
        \/ PopRetry(c)
        \/ Timeout(c)

SpecDeadline == InitDeadline /\ [][NextDeadline]_vars

\* C12: while a push_wait_until whose deadline was already in the past is
\* under way and no consumer is waiting, slot_ never points to the slot of
\* that call
C12_PastDeadlineNeverPublishes ==
    \A c \in Ctx :
        (past[c] /\ op[c] = "push_wait_until" /\ pc[c] # "idle"
                 /\ slist_empty(waiting_consumers_))
            => slot_ # c

-----------------------------------------------------------------------------
\* C13: a close() on a channel that is closed already leaves closed_, slot_,
\* both wait-queues and the chain of the contexts as they are, and marks no
\* context ready
C13_CloseIdempotent ==
    [][(closed_ /\ \E c \in Ctx : Close(c))
          => UNCHANGED <<closed_, slot_, waiting_producers_, waiting_consumers_,
                         next, wake, aborted>>]_vars

\* a second close() has returned, and a call begun before the first close()
\* has returned closed
W_C13_CloseIdempotent ==
    \E c, d \in Ctx :
        /\ op[c] = "close" /\ late[c] /\ ret[c] = "void"
        /\ ret[d] \in {"closed", "fiber_error"} /\ ~late[d]

-----------------------------------------------------------------------------
(* the destructor *)

\* the slot's producer is suspended on its published slot
SuspendedPublished(p) == p # 0 /\ pc[p] = "p_waitpub" /\ wake[p] = "none"

\* how often ~unbuffered_channel() calls set_ready on context p: once for each
\* queue close() pops it off, once for the slot
destroy_marks(p) ==
    (IF p \in slist_members(waiting_producers_, next) THEN 1 ELSE 0)
  + (IF p \in slist_members(waiting_consumers_, next) THEN 1 ELSE 0)
  + 1

\* ~unbuffered_channel(): close(); slot * s = try_pop_(); if s is not
\* nullptr, BOOST_ASSERT( nullptr != s->ctx) and set_ready( s->ctx).  No
\* other fiber is inside a member function but for producers suspended on a
\* published slot, and no call can follow.  The slot object of a producer
\* that has left its call is dead: the read of s->ctx yields the producer or
\* something the process does not survive
Destroy(c) ==
    /\ CanStart(c)
    /\ \A d \in Ctx \ {c} : pc[d] = "idle" \/ SuspendedPublished(d)
    /\ budget' = 0
    /\ op' = [op EXCEPT ![c] = "~unbuffered_channel"]
    /\ late' = [late EXCEPT ![c] = closed_]
    /\ closed_' = TRUE
    /\ destroyed' = TRUE
    /\ LET r == try_pop_(slot_)
           w == set_ready_all(set_ready_all(wake, slist_seq(waiting_producers_, next)),
                              slist_seq(waiting_consumers_, next))
           dead == r.s # 0 /\ ~(pc[r.s] # "idle" /\ op[r.s] \in PushOps)
       IN \E crash \in (IF dead THEN {FALSE, TRUE} ELSE {FALSE}) :
          IF crash \/ slist_cyclic(waiting_producers_, next)
                   \/ slist_cyclic(waiting_consumers_, next)
          THEN /\ aborted' = TRUE
               /\ UNCHANGED <<slot_, pub, waiting_producers_, waiting_consumers_,
                              wake, ret, marks>>
          ELSE /\ waiting_producers_' = [waiting_producers_ EXCEPT !.head = 0]
               /\ waiting_consumers_' = [waiting_consumers_ EXCEPT !.head = 0]
               /\ slot_' = r.slot
               /\ pub' = 0
               /\ wake' = IF r.s # 0 THEN set_ready(w, r.s) ELSE w
               /\ ret' = [ret EXCEPT ![c] = "void"]
               /\ marks' = IF r.s # 0 THEN destroy_marks(r.s) ELSE 0
               /\ UNCHANGED aborted
    /\ orphan' = IF SuspendedPublished(slot_) THEN slot_ ELSE orphan
    /\ UNCHANGED <<next, pc, slotval, sptr, pctx, out, nvals, claimed, succ, tmo,
                   delivered, arrivals, past, cv, bc, slt>>

\* the fibers around the destructor: one producer, the others consumers
DestroyProducer == NCtx

DestroyStartPush(c) == c = DestroyProducer /\ StartPushWaitUntil(c)

DestroyStartPop(c) == c # DestroyProducer /\ StartPop(c)

InitDestroy == init(MaxCallsDestroy)

NextDestroy ==
    \E c \in Ctx :
        \/ DestroyStartPush(c)
        \/ DestroyStartPop(c)
        \/ Destroy(c)
        \/ PushIsClosed(c)
        \/ PushTry(c)
        \/ PushPublished(c)
        \/ PushConsumed(c)
        \/ PushFull(c)
        \/ PushRetry(c)
        \/ PushUnlink(c)
        \/ PopTry(c)
        \/ PopNotify(c)
        \/ PopReady(c)
        \/ PopMove(c)
        \/ PopDone(c)
        \/ PopEmpty(c)
        \/ PopRetry(c)
        \/ Timeout(c)

SpecDestroy == InitDestroy /\ [][NextDestroy]_vars

\* C14: once the destructor has been run on a channel whose slot was
\* published by a suspended producer, close() has run to its end, slot_ is
\* nullptr, the destructor has marked that producer ready exactly once, and
\* the producer is ready or has returned from its push
C14_DestroyReleasesProducer ==
    orphan # 0 =>
        /\ closed_ /\ slot_ = 0 /\ ~aborted
        /\ marks = 1
        /\ \/ pc[orphan] = "p_waitpub" /\ wake[orphan] = "notified"
           \/ pc[orphan] = "idle" /\ ret[orphan] # "none"

-----------------------------------------------------------------------------
(* condition_variable_any *)

\* what the condition variable leaves alone
channel == <<slot_, closed_, waiting_producers_, waiting_consumers_, slotval,
             sptr, pctx, out, late, nvals, hist, arrivals, past, destroyed,
             orphan, marks>>

\* s without its first occurrence of c
seq_remove(s, c) ==
    IF \E i \in 1..Len(s) : s[i] = c
    THEN LET i == CHOOSE j \in 1..Len(s) : s[j] = c /\ \A k \in 1..(j - 1) : s[k] # c
         IN SubSeq(s, 1, i - 1) \o SubSeq(s, i + 1, Len(s))
    ELSE s

\* wait( lk): under wait_queue_splk_ push the active context on wait_queue_,
\* release lk, suspend
CvWait(c) ==
    /\ CanStart(c)
    /\ budget' = budget - 1
    /\ op' = [op EXCEPT ![c] = "wait"]
    /\ LET r == slist_push(wait_queue_, next, c) IN
       /\ wait_queue_' = r.q
       /\ next' = r.next
    /\ pc' = [pc EXCEPT ![c] = "w_wait"]
    /\ fifo' = Append(fifo, c)
    /\ UNCHANGED <<wake, ret, aborted, nctx, nk, woken, channel, bc, slt>>

\* wait( lk): resumed; reacquire lk and return
CvWaitReturn(c) ==
    /\ Running(c, "w_wait")
    /\ wake[c] # "none"
    /\ wake' = [wake EXCEPT ![c] = "none"]
    /\ pc' = [pc EXCEPT ![c] = "idle"]
    /\ ret' = [ret EXCEPT ![c] = "void"]
    /\ fifo' = seq_remove(fifo, c)
    /\ UNCHANGED <<next, op, budget, aborted, wait_queue_, nctx, nk, woken, channel, bc, slt>>

\* notify_one(): spinlock_lock lk( wait_queue_splk_);
\* context * ctx = wait_queue_.pop(); lk.unlock()
NotifyOnePop(c) ==
    /\ CanStart(c)
    /\ budget' = budget - 1
    /\ op' = [op EXCEPT ![c] = "notify_one"]
    /\ LET r == slist_pop(wait_queue_, next) IN
       /\ wait_queue_' = r.q
       /\ nctx' = [nctx EXCEPT ![c] = r.ctx]
       /\ fifo' = seq_remove(fifo, r.ctx)
    /\ pc' = [pc EXCEPT ![c] = "n_ready"]
    /\ nk' = [nk EXCEPT ![c] = [k |-> Len(fifo), b |-> budget]]
    /\ UNCHANGED <<next, wake, ret, aborted, woken, channel, bc, slt>>

\* notify_one(): if ( nullptr == ctx) return;
\* context::active()->set_ready( ctx)
NotifyOneReady(c) ==
    /\ Running(c, "n_ready")
    /\ wake' = IF nctx[c] = 0 THEN wake ELSE set_ready(wake, nctx[c])
    /\ pc' = [pc EXCEPT ![c] = "idle"]
    /\ ret' = [ret EXCEPT ![c] = "void"]
    /\ nctx' = [nctx EXCEPT ![c] = 0]
    /\ nk' = [nk EXCEPT ![c] = [k |-> 0, b |-> 0]]
    /\ UNCHANGED <<next, op, budget, aborted, wait_queue_, fifo, woken,
                   channel, bc, slt>>

\* notify_all(): under wait_queue_splk_,
\* while ( nullptr != ( ctx = wait_queue_.pop() ) ) set_ready( ctx).
\* On a chain that runs into itself the loop does not end
NotifyAll(c) ==
    /\ CanStart(c)
    /\ budget' = budget - 1
    /\ op' = [op EXCEPT ![c] = "notify_all"]
    /\ IF slist_cyclic(wait_queue_, next)
       THEN /\ aborted' = TRUE
            /\ UNCHANGED <<wait_queue_, wake, ret, fifo, woken>>
       ELSE LET s == slist_seq(wait_queue_, next) IN
            /\ wake' = set_ready_all(wake, s)
            /\ wait_queue_' = [wait_queue_ EXCEPT !.head = 0]
            /\ woken' = s
            /\ fifo' = SelectSeq(fifo, LAMBDA x : \A i \in 1..Len(s) : s[i] # x)
            /\ ret' = [ret EXCEPT ![c] = "void"]
            /\ UNCHANGED aborted
    /\ UNCHANGED <<next, pc, nctx, nk, channel, bc, slt>>

InitCv == init(MaxCallsCv)

NextCv ==
    \E c \in AllCtx :
        \/ CvWait(c)
        \/ CvWaitReturn(c)
        \/ NotifyOnePop(c)
        \/ NotifyOneReady(c)
        \/ NotifyAll(c)

SpecCv == InitCv /\ [][NextCv]_vars

\* C15: a notify_one that finds contexts waiting takes the one that has
\* waited longest and leaves the others waiting, one that finds none takes
\* none; and the context it marks ready is a suspended waiter
C15_NotifyOneWakesLongest ==
    [][\A c \in AllCtx :
         /\ NotifyOnePop(c) =>
               IF fifo = << >>
               THEN nctx'[c] = 0
               ELSE nctx'[c] = Head(fifo) /\ fifo' = Tail(fifo)
         /\ (NotifyOneReady(c) /\ nctx[c] # 0) =>
               /\ pc[nctx[c]] = "w_wait" /\ wake[nctx[c]] = "none"
               /\ wake' = [wake EXCEPT ![nctx[c]] = "notified"]]_vars

\* C16: a notify_all marks ready every context that is waiting, in the order
\* in which they began to wait, and leaves the wait-queue empty
C16_NotifyAllWakesAll ==
    [][\A c \in AllCtx :
         NotifyAll(c) =>
            /\ ~aborted'
            /\ woken' = fifo
            /\ fifo' = << >>
            /\ \A i \in 1..Len(fifo) : wake'[fifo[i]] = "notified"
            /\ slist_empty(wait_queue_')]_vars

\* C17: two notify_one calls that have both popped and not yet marked, the
\* first having found two or more contexts waiting and the second being the
\* next call made after it, hold two distinct suspended waiters
C17_ConcurrentNotifyOne ==
    \A c, d \in AllCtx :
        (c # d /\ pc[c] = "n_ready" /\ pc[d] = "n_ready"
               /\ nk[c].k >= 2 /\ nk[d].b = nk[c].b - 1)
            => /\ nctx[c] # 0 /\ nctx[d] # 0 /\ nctx[c] # nctx[d]
               /\ \A x \in {nctx[c], nctx[d]} : pc[x] = "w_wait" /\ wake[x] = "none"

-----------------------------------------------------------------------------
(* asio::detail::broadcast: the callers are threads *)

\* what the broadcast leaves alone
notbc == <<next, wake, aborted, channel, cv, slt>>

\* connect( slot): get_signal().connect( slot).  The signal appends the slot
\* under its own locks; get_mutex() is not called
Connect(c) ==
    /\ CanStart(c)
    /\ signal_s < MaxSlots
    /\ budget' = budget - 1
    /\ op' = [op EXCEPT ![c] = "connect"]
    /\ ret' = [ret EXCEPT ![c] = "connection"]
    /\ signal_s' = signal_s + 1
    /\ UNCHANGED <<pc, mutex_s, inv, blog, notbc>>

\* notify( args...) is called
NotifyStart(c) ==
    /\ CanStart(c)
    /\ budget' = budget - 1
    /\ op' = [op EXCEPT ![c] = "notify"]
    /\ pc' = [pc EXCEPT ![c] = "b_lock"]
    /\ inv' = [inv EXCEPT ![c] = [n |-> 0, i |-> 0, busy |-> FALSE, id |-> budget]]
    /\ UNCHANGED <<ret, mutex_s, signal_s, blog, notbc>>

\* a notify that enters the signal without the mutex
NotifyLock_unlocked(c) ==
    /\ Running(c, "b_lock")
    /\ mutex_s' = c
    /\ inv' = [inv EXCEPT ![c].n = signal_s]
    /\ pc' = [pc EXCEPT ![c] = "b_call"]
    /\ UNCHANGED <<op, ret, budget, signal_s, blog, notbc>>

\* notify: std::unique_lock< std::mutex > lk( get_mutex()); then
\* get_signal()( args...) takes the slots connected by now
NotifyLock(c) ==
    /\ Running(c, "b_lock")
    /\ mutex_s = 0
    /\ mutex_s' = c
    /\ inv' = [inv EXCEPT ![c].n = signal_s]
    /\ pc' = [pc EXCEPT ![c] = "b_call"]
    /\ UNCHANGED <<op, ret, budget, signal_s, blog, notbc>>

\* get_signal()( args...): the next slot is called
NotifySlotCall(c) ==
    /\ Running(c, "b_call")
    /\ ~inv[c].busy /\ inv[c].i < inv[c].n
    /\ inv' = [inv EXCEPT ![c].i = @ + 1, ![c].busy = TRUE]
    /\ blog' = Append(blog, inv[c].id)
    /\ UNCHANGED <<pc, op, ret, budget, mutex_s, signal_s, notbc>>

\* the slot returns
NotifySlotReturn(c) ==
    /\ Running(c, "b_call")
    /\ inv[c].busy
    /\ inv' = [inv EXCEPT ![c].busy = FALSE]
    /\ UNCHANGED <<pc, op, ret, budget, mutex_s, signal_s, blog, notbc>>

\* notify: return; lk releases the mutex
NotifyUnlock(c) ==
    /\ Running(c, "b_call")
    /\ ~inv[c].busy /\ inv[c].i = inv[c].n
    /\ mutex_s' = 0
    /\ pc' = [pc EXCEPT ![c] = "idle"]
    /\ ret' = [ret EXCEPT ![c] = "result"]
    /\ UNCHANGED <<op, budget, signal_s, inv, blog, notbc>>

InitBc == init(MaxCallsBc)

NextBc ==
    \E c \in Ctx :
        \/ Connect(c)
        \/ NotifyStart(c)
        \/ NotifyLock(c)
        \/ NotifySlotCall(c)
        \/ NotifySlotReturn(c)
        \/ NotifyUnlock(c)

SpecBc == InitBc /\ [][NextBc]_vars

\* C18: at most one thread is inside the signal, the slot invocations of a
\* notify call are not interleaved with those of another, and a thread
\* outside any call can connect whether or not a notify is running
C18_NotifySerialized ==
    /\ \A c, d \in Ctx : (pc[c] = "b_call" /\ pc[d] = "b_call") => c = d
    /\ \A i, k \in 1..Len(blog) :
          (i < k /\ blog[i] = blog[k]) => \A j \in i..k : blog[j] = blog[i]
    /\ \A c \in Ctx :
          (CanStart(c) /\ signal_s < MaxSlots) => ENABLED Connect(c)

\* a notify is inside a slot, another notify waits for the mutex, and a slot
\* was connected while the mutex was held
W_C18_NotifySerialized ==
    \E c, d \in Ctx :
        /\ pc[c] = "b_call" /\ inv[c].busy
        /\ mutex_s = c
        /\ pc[d] = "b_lock"
        /\ signal_s > inv[c].n

-----------------------------------------------------------------------------
(* context_slist on its own *)

\* what a call on sl leaves alone
notsl == <<wake, pc, op, ret, channel, cv, bc, slt2>>

in_seq(s, c) == \E i \in 1..Len(s) : s[i] = c

\* sl.push( c) of a context that is not in the list
SlPush(c) ==
    /\ ~aborted /\ budget > 0
    /\ ~in_seq(ref, c)
    /\ budget' = budget - 1
    /\ LET r == slist_push(sl, next, c) IN
       /\ sl' = r.q
       /\ next' = r.next
    /\ ref' = Append(ref, c)
    /\ UNCHANGED <<lastpop, aborted, notsl>>

\* sl.pop()
SlPop ==
    /\ ~aborted /\ budget > 0
    /\ budget' = budget - 1
    /\ LET r == slist_pop(sl, next) IN
       /\ sl' = r.q
       /\ lastpop' = r.ctx
       /\ ref' = seq_remove(ref, r.ctx)
    /\ UNCHANGED <<next, aborted, notsl>>

\* sl.unlink( c) of a context that was pushed and not taken off.  If the
\* walk from head_ does not meet c it runs off the list
SlUnlink(c) ==
    /\ ~aborted /\ budget > 0
    /\ in_seq(ref, c)
    /\ budget' = budget - 1
    /\ IF c \in slist_members(sl, next)
       THEN LET r == slist_unlink(sl, next, c) IN
            /\ sl' = r.q
            /\ next' = r.next
            /\ ref' = seq_remove(ref, c)
            /\ UNCHANGED aborted
       ELSE /\ aborted' = TRUE
            /\ UNCHANGED <<sl, next, ref>>
    /\ UNCHANGED <<lastpop, notsl>>

InitSlist == init(MaxCallsSlist)

NextSlist ==
    \/ \E c \in Ctx : SlPush(c)
    \/ SlPop

SpecSlist == InitSlist /\ [][NextSlist]_vars

NextUnlink ==
    \E c \in Ctx :
        \/ SlPush(c)
        \/ SlUnlink(c)

SpecUnlink == InitSlist /\ [][NextUnlink]_vars

\* C19: pop returns the context pushed longest ago among those not yet
\* popped, and nullptr when there is none; after any call empty() is true
\* exactly when every pushed context has been popped
C19_SlistFifo ==
    [][/\ SlPop => lastpop' = (IF ref = << >> THEN 0 ELSE Head(ref))
       /\ slist_empty(sl') <=> ref' = << >>]_vars

\* C20: unlink( c) takes exactly c off the list and keeps the order of the
\* others, and whatever is pushed afterwards is reached from head_ behind
\* them: the list pop walks is the list of the contexts pushed and not
\* unlinked, in the order of their pushes
C20_UnlinkKeepsQueue ==
    ~aborted /\ slist_seq(sl, next) = ref

-----------------------------------------------------------------------------
(* two context_slists and the contexts that move between them *)

\* sl.push( c) of a context that is in neither list
TwoPush(c) == ~in_seq(ref2, c) /\ SlPush(c)

\* sl2.push( c) of a context that is in neither list
Sl2Push(c) ==
    /\ ~aborted /\ budget > 0
    /\ ~in_seq(ref, c) /\ ~in_seq(ref2, c)
    /\ budget' = budget - 1
    /\ LET r == slist_push(sl2, next, c) IN
       /\ sl2' = r.q
       /\ next' = r.next
    /\ ref2' = Append(ref2, c)
    /\ UNCHANGED <<sl, ref, lastpop, aborted, wake, pc, op, ret, channel, cv, bc>>

\* sl2.pop()
Sl2Pop ==
    /\ ~aborted /\ budget > 0
    /\ budget' = budget - 1
    /\ LET r == slist_pop(sl2, next) IN
       /\ sl2' = r.q
       /\ lastpop' = r.ctx
       /\ ref2' = seq_remove(ref2, r.ctx)
    /\ UNCHANGED <<sl, ref, next, aborted, wake, pc, op, ret, channel, cv, bc>>

NextTwo ==
    \/ \E c \in Ctx : TwoPush(c) \/ Sl2Push(c)
    \/ SlPop
    \/ Sl2Pop

SpecTwo == InitSlist /\ [][NextTwo]_vars

\* C21: no context is reached from the head_ of both lists, and a pop on the
\* second list returns nullptr or a context that was pushed on that list
\* and not yet taken off it
C21_OneQueueAtATime ==
    [][/\ slist_members(sl', next') \cap slist_members(sl2', next') = {}
       /\ Sl2Pop => (lastpop' = 0 \/ in_seq(ref2, lastpop'))]_vars

(***************************************************************************)
(* The closed test of the retry loops.  push and push_wait_until test      *)
(* is_closed() at the head of the loop, so a producer reaches try_push_    *)
(* only from that test.  pop, value_pop and pop_wait_until begin every     *)
(* iteration with try_pop_(); their only closed test is in the else        *)
(* branch, after the CAS has failed.                                       *)
(***************************************************************************)

\* C22: a fiber that comes back to the CAS on slot_ after its first attempt
\* (a producer to try_push_, a consumer to try_pop_) comes from a test of
\* closed: the is_closed() at the head of push's loop, or the locked
\* is_closed() just before the `continue` of pop's empty-check path
C22_ClosedTestedBeforeCas ==
    [][\A c \in Ctx :
        (/\ pc'[c] \in {"p_try", "c_try"}
         /\ pc[c] # pc'[c]
         /\ pc[c] # "idle")
        => pc[c] \in {"p_closed", "c_empty"}]_vars

\* C23: a fiber whose wait_until() returned false and that is about to lock
\* the spinlock and call unlink( active_ctx) is still reachable from the
\* head_ of the queue it is unlinked from
C23_UnlinkOfMember ==
    \A c \in Ctx :
        /\ pc[c] = "p_relock" => c \in slist_members(waiting_producers_, next)
        /\ pc[c] = "c_relock" => c \in slist_members(waiting_consumers_, next)

=============================================================================
